---- MODULE Spec2Model ----
(***************************************************************************)
(* ClawFix: the diagnose pipeline of src/src/routes/diagnose.js, the issue *)
(* catalog and detector of src/src/known-issues.js and the best-effort     *)
(* persistence of src/src/db.js.                                           *)
(*                                                                         *)
(* Texts are modelled as sequences of words: a log blob, a fix body and a  *)
(* script are sequences, String.includes and the catalog's regular         *)
(* expressions are searches over them.  The script is the sequence of the  *)
(* lines that generateFixScript joins with a newline.                      *)
(***************************************************************************)
EXTENDS Integers, Sequences, FiniteSets, TLC

(***************************************************************************)
(* Bounds of the model.                                                    *)
(***************************************************************************)
\* Capacity of the result store.  diagnose.js:77 keeps the last 1000; the
\* model keeps the last Capacity, every other line of the handler unchanged.
Capacity == 2
\* Total number of POST /diagnose calls that get past validation.
MaxCalls == 3
\* Number of requests that can be in flight at once.
MaxReq == 2

(***************************************************************************)
(* Words of the modelled texts.                                            *)
(***************************************************************************)
CONFIG_MARKER == "openclaw.json"
NL == "\n"

\* String.prototype.includes: the word occurs in the text.
Includes(text, word) == \E i \in 1..Len(text) : text[i] = word

\* Lower-casing of the words the catalog's /i expressions look for.
Lower(w) ==
  CASE w = "EADDRINUSE" -> "eaddrinuse"
    [] w = "GGML_ASSERT" -> "ggml_assert"
    [] w = "Orphan" -> "orphan"
    [] OTHER -> w

\* Whether the (lower-case) pattern occurs inside the word, for the patterns
\* of the catalog: "assert" occurs in "ggml_assert", "tool" in "tool_call_id".
WordHas(w, pat) ==
  LET lw == Lower(w) IN
    \/ lw = pat
    \/ pat = "assert" /\ lw = "ggml_assert"
    \/ pat = "tool" /\ lw = "tool_call_id"

Has_Anchored(text, pat) == text # <<>> /\ WordHas(text[1], pat)

\* /pat/i.test(text)
Has(text, pat) == \E i \in 1..Len(text) : WordHas(text[i], pat)

\* /a.*b/i.test(text): a, then b later on the same line ('.' stops at "\n").
HasThen(text, a, b) ==
  \E i \in 1..Len(text) : \E j \in (i+1)..Len(text) :
     /\ WordHas(text[i], a)
     /\ WordHas(text[j], b)
     /\ \A k \in i..j : text[k] # NL

\* /a.*b.*c/i.test(text)
HasThen3(text, a, b, c) ==
  \E i \in 1..Len(text) : \E j \in (i+1)..Len(text) : \E l \in (j+1)..Len(text) :
     /\ WordHas(text[i], a)
     /\ WordHas(text[j], b)
     /\ WordHas(text[l], c)
     /\ \A k \in i..l : text[k] # NL

(***************************************************************************)
(* The Diagnostic Payload (req.body).  A leaf that is missing, or whose    *)
(* parent group is missing, reads as undefined through the optional chain; *)
(* the record holds what each predicate reads.                             *)
(***************************************************************************)
NoHeartbeat == [num |-> 0, unit |-> "none"]
HeartbeatVals ==
  { NoHeartbeat, [num |-> 5, unit |-> "m"], [num |-> 30, unit |-> "m"],
    [num |-> 5, unit |-> "h"] }

\* config.plugins.entries[key].config.enableGraph === true, for which key.
GraphKeys == {"none", "mem0", "openclaw-mem0"}

\* logs.errors and logs.stderr; ABSENT is an undefined leaf.
ABSENT == <<"<undefined>">>
LogSamples ==
  { [errors |-> ABSENT, stderr |-> ABSENT],
    [errors |-> <<"gateway", "EADDRINUSE">>, stderr |-> ABSENT],
    [errors |-> <<"eaddrinuse">>, stderr |-> <<>>],
    [errors |-> <<"18791", "EADDRINUSE">>, stderr |-> ABSENT],
    [errors |-> <<"18791", NL, "EADDRINUSE">>, stderr |-> ABSENT],
    [errors |-> <<"browser", "control", "fail">>, stderr |-> ABSENT],
    [errors |-> <<"GGML_ASSERT">>, stderr |-> <<"ggml-metal">>],
    [errors |-> <<"Orphan", "tool_call_id">>, stderr |-> <<"ggml-metal">>] }

OpenclawSamples ==
  { [gatewayStatus |-> "", gatewayPid |-> FALSE],
    [gatewayStatus |-> "running", gatewayPid |-> TRUE],
    [gatewayStatus |-> "not running", gatewayPid |-> FALSE],
    [gatewayStatus |-> "Error", gatewayPid |-> TRUE] }

\* memoryFiles = -1 stands for an undefined leaf.
WorkspaceSamples ==
  { [hasSoul |-> FALSE, memoryFiles |-> -1],
    [hasSoul |-> TRUE, memoryFiles |-> 0],
    [hasSoul |-> TRUE, memoryFiles |-> 3] }

ConfigVals ==
  [ graphKey : GraphKeys, hybridEnabled : BOOLEAN, contextPruning : BOOLEAN,
    memoryFlushEnabled : BOOLEAN, heartbeat : HeartbeatVals ]

\* body: is req.body an object; system: the top-level system field.
Payload(body, system, config, openclaw, workspace, logs) ==
  [ body |-> body, system |-> system, config |-> config,
    openclaw |-> openclaw, workspace |-> workspace, logs |-> logs ]

MinimalConfig ==
  [ graphKey |-> "none", hybridEnabled |-> FALSE, contextPruning |-> FALSE,
    memoryFlushEnabled |-> FALSE, heartbeat |-> NoHeartbeat ]
HealthyConfig ==
  [ graphKey |-> "none", hybridEnabled |-> TRUE, contextPruning |-> TRUE,
    memoryFlushEnabled |-> TRUE, heartbeat |-> [num |-> 30, unit |-> "m"] ]
NoOpenclaw == [gatewayStatus |-> "", gatewayPid |-> FALSE]
NoWorkspace == [hasSoul |-> FALSE, memoryFiles |-> -1]
NoLogs == [errors |-> ABSENT, stderr |-> ABSENT]

\* Every payload the detector is exercised on: system present, every
\* combination of the sampled groups.
DetectPayloads ==
  { Payload("object", "truthy", c, o, w, l) :
      c \in ConfigVals, o \in OpenclawSamples, w \in WorkspaceSamples,
      l \in LogSamples }

\* x || '' for a log leaf
OrEmpty(text) == IF text = ABSENT THEN <<>> ELSE text

(***************************************************************************)
(* The Issue Catalog, known-issues.js:7-239.                               *)
(***************************************************************************)
Fix(id, touchesConfig) ==
  IF touchesConfig THEN <<"# Fix", id, "~/.openclaw/", CONFIG_MARKER>>
  ELSE <<"# Fix", id>>

Issue(id, severity, touchesConfig) ==
  [ id |-> id, severity |-> severity, title |-> <<"title", id>>,
    description |-> <<"description", id>>, fix |-> Fix(id, touchesConfig) ]

KNOWN_ISSUES ==
  << Issue("mem0-graph-free", "critical", TRUE),
     Issue("gateway-not-running", "critical", FALSE),
     Issue("port-conflict", "critical", TRUE),
     Issue("browser-port-binding", "high", FALSE),
     Issue("no-hybrid-search", "medium", TRUE),
     Issue("no-context-pruning", "medium", TRUE),
     Issue("no-memory-flush", "high", TRUE),
     Issue("no-soul", "low", TRUE),
     Issue("no-memory-files", "low", TRUE),
     Issue("ggml-metal-crash", "high", TRUE),
     Issue("orphan-tool-calls", "medium", FALSE),
     Issue("high-token-usage", "medium", TRUE) >>

IssueIds == { KNOWN_ISSUES[i].id : i \in 1..Len(KNOWN_ISSUES) }

StatusDown_NotRunning(status) == status # "running"

\* /not running|error|failed|stopped/i.test(status)
StatusDown(status) ==
  status \in {"not running", "Error", "error", "failed", "stopped"}

EnableGraph_Mem0Key(diag) == diag.config.graphKey = "mem0"

\* diag.config?.plugins?.entries?.['openclaw-mem0']?.config?.enableGraph === true
EnableGraph(diag) == diag.config.graphKey = "openclaw-mem0"

\* The detect predicate of each catalog entry, on a payload of JSON values.
Detect(id, diag) ==
  CASE id = "mem0-graph-free" -> EnableGraph(diag)
    [] id = "gateway-not-running" ->
         StatusDown(diag.openclaw.gatewayStatus) /\ ~diag.openclaw.gatewayPid
    [] id = "port-conflict" -> Has(OrEmpty(diag.logs.errors), "eaddrinuse")
    [] id = "browser-port-binding" ->
         LET logs == OrEmpty(diag.logs.errors) IN
           \/ HasThen(logs, "18791", "eaddrinuse")
           \/ HasThen3(logs, "browser", "control", "fail")
           \/ HasThen3(logs, "browser", "service", "start")
    [] id = "no-hybrid-search" -> ~diag.config.hybridEnabled
    [] id = "no-context-pruning" -> ~diag.config.contextPruning
    [] id = "no-memory-flush" -> ~diag.config.memoryFlushEnabled
    [] id = "no-soul" -> ~diag.workspace.hasSoul
    [] id = "no-memory-files" -> diag.workspace.memoryFiles = 0
    [] id = "ggml-metal-crash" ->
         LET both == OrEmpty(diag.logs.errors) \o OrEmpty(diag.logs.stderr) IN
           \/ HasThen(both, "ggml_assert", "ggml-metal")
           \/ HasThen(both, "ggml-metal", "assert")
    [] id = "orphan-tool-calls" ->
         LET logs == OrEmpty(diag.logs.errors) IN
           \/ HasThen3(logs, "tool_call_id", "not", "found")
           \/ HasThen(logs, "orphan", "tool")
    [] id = "high-token-usage" ->
         LET every == diag.config.heartbeat IN
           /\ ~diag.config.contextPruning
           /\ every # NoHeartbeat
           /\ every.unit = "m"
           /\ every.num < 30
    [] OTHER -> FALSE

\* issue.detect(diagnostic) as detectIssues sees it: a value, or a throw.
\* throwing is the set of rules whose predicate is made to throw.
CallDetect(issue, diag, throwing) ==
  IF issue.id \in throwing THEN "throw"
  ELSE IF Detect(issue.id, diag) THEN "true" ELSE "false"

(***************************************************************************)
(* detectIssues, known-issues.js:244-260.                                  *)
(***************************************************************************)
\* A result of a call that may throw.
Returned(v) == [threw |-> FALSE, value |-> v]
Thrown == [threw |-> TRUE, value |-> <<>>]

SafeDetect_NoCatch(issue, diag, throwing) == CallDetect(issue, diag, throwing)

\* The callback of filter: try { return issue.detect(d) } catch { return false }
SafeDetect(issue, diag, throwing) ==
  LET r == CallDetect(issue, diag, throwing) IN
    IF r = "throw" THEN "false" ELSE r

\* The projection of map: {id, severity, title, description, fix}.
Project(issue) ==
  [ id |-> issue.id, severity |-> issue.severity, title |-> issue.title,
    description |-> issue.description, fix |-> issue.fix ]

\* catalog.filter(callback) from index i on; a throw of the callback leaves
\* filter at once.
RECURSIVE FilterFrom(_, _, _, _)
FilterFrom(catalog, i, diag, throwing) ==
  IF i > Len(catalog) THEN Returned(<<>>)
  ELSE LET r == SafeDetect(catalog[i], diag, throwing) IN
    IF r = "throw" THEN Thrown
    ELSE LET rest == FilterFrom(catalog, i + 1, diag, throwing) IN
      IF rest.threw THEN Thrown
      ELSE IF r = "true" THEN Returned(<<catalog[i]>> \o rest.value)
      ELSE rest

detectIssuesOf(catalog, diag, throwing) ==
  LET kept == FilterFrom(catalog, 1, diag, throwing) IN
    IF kept.threw THEN Thrown
    ELSE Returned([i \in 1..Len(kept.value) |-> Project(kept.value[i])])

detectIssues_BySeverity(diag, throwing) ==
  LET r == detectIssuesOf(KNOWN_ISSUES, diag, throwing)
      rank(k) == SelectSeq(r.value, LAMBDA i :
                   (CASE i.severity = "critical" -> 0 [] i.severity = "high" -> 1
                      [] i.severity = "medium" -> 2 [] OTHER -> 3) = k)
  IN IF r.threw THEN r ELSE Returned(rank(0) \o rank(1) \o rank(2) \o rank(3))

detectIssues(diag, throwing) == detectIssuesOf(KNOWN_ISSUES, diag, throwing)

(***************************************************************************)
(* The AI augmentor call and analyzeWithAI, diagnose.js:109-157.           *)
(***************************************************************************)
Section(heading, body) == [heading |-> heading, body |-> body]

\* What anthropic.messages.create does: resolve with a response text (a
\* sequence of headed sections), resolve with a message that has no text
\* content, or reject (network error, provider error, provider timeout).
AiOk(response) == [kind |-> "ok", response |-> response]
AiMalformed == [kind |-> "malformed", response |-> <<>>]
AiReject == [kind |-> "reject", response |-> <<>>]

ResponseSamples ==
  { << Section("summary", <<"healthy">>), Section("optimization", <<"tune">>),
       Section("fix", <<"ai-fix">>) >>,
    << Section("Summary", <<"broken">>),
       Section("fix", <<"jq", "~/.openclaw/", CONFIG_MARKER>>) >>,
    << Section("", <<"free", "text">>) >> }

AiOutcomes == { AiOk(r) : r \in ResponseSamples } \cup { AiMalformed, AiReject }

\* The outcomes the server is exercised on.
ServerAiOutcomes ==
  { AiOk(<< Section("Summary", <<"broken">>),
            Section("fix", <<"jq", "~/.openclaw/", CONFIG_MARKER>>) >>),
    AiMalformed, AiReject }

LowerHeading(h) == IF h = "Summary" THEN "summary" ELSE h

\* extractSection(text, keyword): the body under the first heading that is
\* the keyword (case-insensitive), or ''.
RECURSIVE extractSection(_, _)
extractSection(text, keyword) ==
  IF text = <<>> THEN <<>>
  ELSE IF LowerHeading(Head(text).heading) = keyword THEN Head(text).body
  ELSE extractSection(Tail(text), keyword)

\* The whole response text, and response.slice(0, 500).
RECURSIVE Raw(_)
Raw(text) ==
  IF text = <<>> THEN <<>>
  ELSE (IF Head(text).heading = "" THEN <<>> ELSE <<Head(text).heading>>)
         \o Head(text).body \o Raw(Tail(text))
Slice500(raw) == SubSeq(raw, 1, IF Len(raw) < 500 THEN Len(raw) ELSE 500)

\* a || b on strings
OrElse(a, b) == IF a # <<>> THEN a ELSE b

\* A summary text: the AI's, or the template of the catch block with the
\* number of matched issues.
AiSummary(text) == [patternOnly |-> FALSE, count |-> 0, text |-> text]
PatternOnlySummary(n) ==
  [ patternOnly |-> TRUE, count |-> n,
    text |-> <<"Pattern matching found", "issue(s).", "AI analysis unavailable">> ]

Degraded_Rethrow(knownIssues) == Thrown

\* The catch block, diagnose.js:142-150.
Degraded(knownIssues) ==
  Returned([ summary |-> PatternOnlySummary(Len(knownIssues)),
             insights |-> <<>>,
             additionalIssues |-> <<>>,
             additionalFixes |-> <<>> ])

\* analyzeWithAI once the call has settled with outcome.
analyzeWithAI(knownIssues, outcome) ==
  IF outcome.kind = "ok" THEN
    LET response == outcome.response IN
      Returned([ summary |-> AiSummary(OrElse(extractSection(response, "summary"),
                                              Slice500(Raw(response)))),
                 insights |-> extractSection(response, "optimization"),
                 additionalIssues |-> <<>>,
                 additionalFixes |-> extractSection(response, "fix") ])
  ELSE Degraded(knownIssues)

(***************************************************************************)
(* generateFixScript, diagnose.js:159-206.  A line is a record: its kind,  *)
(* the fix identifier it names (0 for none) and its words.                 *)
(***************************************************************************)
Line(kind, id, text) == [kind |-> kind, id |-> id, text |-> text]
Blank == Line("", 0, <<>>)

HeaderLines(fixId) ==
  << Line("shebang", 0, <<"#!/usr/bin/env bash">>),
     Line("scriptId", fixId, <<"# ClawFix Fix Script">>),
     Line("generated", 0, <<"# Generated:">>),
     Line("review", 0, <<"# Review each step before running!">>),
     Line("comment", 0, <<"#">>),
     Line("usage", 0, <<"# Usage: bash fix.sh">>),
     Blank,
     Line("set", 0, <<"set -euo pipefail">>),
     Blank >>

BackupLines ==
  << Line("backup", 0, <<"# Backup current config">>),
     Line("backupIf", 0, <<"if [ -f", "~/.openclaw/", CONFIG_MARKER, "]; then">>),
     Line("backupCp", 0, <<"cp", "~/.openclaw/", CONFIG_MARKER, ".bak">>),
     Line("backupEcho", 0, <<"echo", "Config backed up">>),
     Line("backupFi", 0, <<"fi">>),
     Blank >>

IssueBlock(issue) ==
  << Line("issueHeader", 0, <<"# Fix:">> \o issue.title \o <<issue.severity>>),
     Line("issueDescription", 0, <<"#">> \o issue.description),
     Line("issueFix", 0, issue.fix),
     Blank >>

SeverityRank(sev) ==
  CASE sev = "critical" -> 0 [] sev = "high" -> 1 [] sev = "medium" -> 2
    [] OTHER -> 3

RECURSIVE BlocksInOrder(_)
BlocksInOrder(issues) ==
  IF issues = <<>> THEN <<>>
  ELSE IssueBlock(Head(issues)) \o BlocksInOrder(Tail(issues))

\* The issues of one severity rank, in their order.
OfRank(issues, r) == SelectSeq(issues, LAMBDA i : SeverityRank(i.severity) = r)

IssueBlocks_BySeverity(knownIssues) ==
  BlocksInOrder(OfRank(knownIssues, 0) \o OfRank(knownIssues, 1)
                  \o OfRank(knownIssues, 2) \o OfRank(knownIssues, 3))

\* for (const issue of knownIssues) { ... }
IssueBlocks(knownIssues) == BlocksInOrder(knownIssues)

\* if (aiAnalysis.additionalFixes) { ... }
AiBlock(aiAnalysis) ==
  IF aiAnalysis.additionalFixes # <<>> THEN
    << Line("aiHeader", 0, <<"# Additional AI-Recommended Fixes">>),
       Line("aiFixes", 0, aiAnalysis.additionalFixes),
       Blank >>
  ELSE <<>>

\* knownIssues.some(i => i.fix.includes('openclaw.json'))
NeedsRestart(knownIssues) ==
  \E i \in 1..Len(knownIssues) : Includes(knownIssues[i].fix, CONFIG_MARKER)

RestartBlock(knownIssues) ==
  IF NeedsRestart(knownIssues) THEN
    << Line("restartHeader", 0, <<"# Restart Gateway to Apply Changes">>),
       Line("restartEcho", 0, <<"echo", "Restarting OpenClaw gateway...">>),
       Line("restartCommand", 0, <<"openclaw gateway restart">>),
       Blank >>
  ELSE <<>>

BannerLines(fixId) ==
  << Line("bannerBlank", 0, <<"echo">>),
     Line("bannerDone", 0, <<"echo", "All fixes applied!">>),
     Line("bannerFixId", fixId, <<"echo", "Fix ID:">>) >>

generateFixScript_RestartFirst(knownIssues, aiAnalysis, fixId) ==
  HeaderLines(fixId) \o BackupLines \o IssueBlocks(knownIssues)
    \o RestartBlock(knownIssues) \o AiBlock(aiAnalysis) \o BannerLines(fixId)

generateFixScript(knownIssues, aiAnalysis, fixId) ==
  HeaderLines(fixId) \o BackupLines \o IssueBlocks(knownIssues)
    \o AiBlock(aiAnalysis) \o RestartBlock(knownIssues) \o BannerLines(fixId)

(***************************************************************************)
(* The result store: const fixes = new Map(), diagnose.js:11.  A Map keeps *)
(* its keys in insertion order; it is the sequence of its entries.         *)
(***************************************************************************)
MapKeys(m) == { m[i].key : i \in 1..Len(m) }
MapHas(m, k) == k \in MapKeys(m)
MapIndex(m, k) == (CHOOSE i \in 1..Len(m) : m[i].key = k)

\* Map.prototype.set: a new key goes last, a present key keeps its place.
MapSet(m, k, v) ==
  IF MapHas(m, k)
  THEN [i \in 1..Len(m) |-> IF m[i].key = k THEN [key |-> k, value |-> v] ELSE m[i]]
  ELSE Append(m, [key |-> k, value |-> v])

MapDelete(m, k) == SelectSeq(m, LAMBDA e : e.key # k)

Newest_Key(m) == m[Len(m)].key

\* fixes.keys().next().value
Oldest(m) == m[1].key

\* if (fixes.size > 1000) fixes.delete(oldest), diagnose.js:77-80
Evict(m) == IF Len(m) > Capacity THEN MapDelete(m, Oldest(m)) ELSE m

(***************************************************************************)
(* The requests the server is exercised on.                                *)
(***************************************************************************)
HealthyWorkspace == [hasSoul |-> TRUE, memoryFiles |-> 3]
MinimalPayload ==
  Payload("object", "truthy", MinimalConfig, NoOpenclaw, NoWorkspace, NoLogs)
GatewayDownPayload ==
  Payload("object", "truthy", HealthyConfig,
          [gatewayStatus |-> "not running", gatewayPid |-> FALSE],
          HealthyWorkspace,
          [errors |-> <<"browser", "control", "fail">>, stderr |-> ABSENT])

Input(diag, throwing) == [diag |-> diag, throwing |-> throwing]

\* A request body and the rules whose predicate is made to throw while the
\* request is served.
ServerInputs ==
  { Input([MinimalPayload EXCEPT !.body = "absent", !.system = "absent"], {}),
    Input([MinimalPayload EXCEPT !.system = "absent"], {}),
    Input([GatewayDownPayload EXCEPT !.system = "falsy"], {}),
    Input(MinimalPayload, {"no-context-pruning"}),
    Input(GatewayDownPayload, {}) }

\* !diagnostic || !diagnostic.system, diagnose.js:39
Invalid_BodyOnly(diag) == diag.body = "absent"
Invalid(diag) == diag.body = "absent" \/ diag.system # "truthy"

(***************************************************************************)
(* storeDiagnosis, db.js:105-145.  The tables live in the database; the    *)
(* function's outcome is what the caller sees: whether it threw, whether   *)
(* it logged, how many queries it completed.  failAt is the query that the *)
(* database rejects (0 for none): 1 is the INSERT of the diagnosis, 1 + i  *)
(* the counter update of the i-th known issue.                             *)
(***************************************************************************)
\* The body of the try block: the queries in order, up to the one that fails.
RunQueries(result, failAt) ==
  LET queries == 1 + Len(result.knownIssues) IN
    IF failAt \in 1..queries
    THEN [threw |-> TRUE, queries |-> failAt - 1]
    ELSE [threw |-> FALSE, queries |-> queries]

storeDiagnosis_NoCatch(result, poolUp, failAt) ==
  IF ~poolUp THEN [threw |-> FALSE, logged |-> FALSE, queries |-> 0]
  ELSE LET r == RunQueries(result, failAt) IN
    [threw |-> r.threw, logged |-> FALSE, queries |-> r.queries]

\* if (!db) return; try { ... } catch (err) { console.error(...) }
storeDiagnosis(result, poolUp, failAt) ==
  IF ~poolUp THEN [threw |-> FALSE, logged |-> FALSE, queries |-> 0]
  ELSE LET r == RunQueries(result, failAt) IN
    [threw |-> FALSE, logged |-> r.threw, queries |-> r.queries]

(***************************************************************************)
(* The server.                                                             *)
(***************************************************************************)
VARIABLES
  fixes,      \* the result store
  pc,         \* per request slot: "idle", or "awaitAI" (suspended at line 50)
  diag,       \* per slot: the payload of the suspended request
  known,      \* per slot: knownIssues of the suspended request
  throwing,   \* per slot: the rules whose predicate threw for the request
  augmentor,  \* "up", or "hung": it has stopped answering for good
  detectRuns, \* number of detectIssues calls so far
  aiCalls,    \* number of analyzeWithAI calls so far
  idsIssued,  \* number of identifiers nanoid has produced
  issued,     \* history: the keys inserted into fixes, in order
  sent,       \* history: the script each diagnose response carried, per
              \* key still stored
  last        \* the last thing the server did, and what it answered

\* The detector and composer on their own.
VARIABLES
  pPayload, pThrowing, pStage, pKnown, pAi, pScript

svars == << fixes, pc, diag, known, throwing, augmentor, detectRuns, aiCalls,
            idsIssued, issued, sent, last >>
pvars == << pPayload, pThrowing, pStage, pKnown, pAi, pScript >>
vars == << svars, pvars >>

Req == 1..MaxReq

NoResult ==
  [ fixId |-> 0, issuesFound |-> 0, knownIssues |-> <<>>,
    analysis |-> AiSummary(<<>>), fixScript |-> <<>>, aiInsights |-> <<>> ]
NoStore == [threw |-> FALSE, logged |-> FALSE, queries |-> 0]

\* What the server did last.  ai is how the augmentor call of the request
\* settled; poolUp and failAt are the database's state and fault during a
\* storeDiagnosis call.
\* op: "start", "hang" (no request was served), "reject" (400), "accept" (request suspended at the augmentor call),
\* "respond" (200), "error" (500), "get", "store".
Event(op, status) ==
  [ op |-> op, status |-> status, diag |-> MinimalPayload, fixId |-> 0,
    format |-> "", ai |-> "", throwing |-> {}, response |-> <<>>,
    result |-> NoResult, text |-> <<>>,
    poolUp |-> FALSE, failAt |-> 0, store |-> NoStore ]

\* knownIssues.map(i => ({id, severity, title, description}))
Summary(issue) ==
  [ id |-> issue.id, severity |-> issue.severity, title |-> issue.title,
    description |-> issue.description ]

Result_CountsAiFixes(fixId, knownIssues, aiAnalysis, fixScript) ==
  [ fixId |-> fixId,
    issuesFound |-> Len(knownIssues)
                     + (IF aiAnalysis.additionalFixes # <<>> THEN 1 ELSE 0),
    knownIssues |-> [i \in 1..Len(knownIssues) |-> Summary(knownIssues[i])],
    analysis |-> aiAnalysis.summary,
    fixScript |-> fixScript,
    aiInsights |-> aiAnalysis.insights ]

\* The result object of diagnose.js:59-72 (the timestamp is left out).
Result(fixId, knownIssues, aiAnalysis, fixScript) ==
  [ fixId |-> fixId,
    issuesFound |-> Len(knownIssues) + Len(aiAnalysis.additionalIssues),
    knownIssues |-> [i \in 1..Len(knownIssues) |-> Summary(knownIssues[i])],
    analysis |-> aiAnalysis.summary,
    fixScript |-> fixScript,
    aiInsights |-> aiAnalysis.insights ]

\* nanoid(12): an identifier that was never produced before.
Nanoid(n) == n + 1

NoAnalysis ==
  [ summary |-> AiSummary(<<>>), insights |-> <<>>, additionalIssues |-> <<>>,
    additionalFixes |-> <<>> ]

PIdle ==
  /\ pPayload = MinimalPayload /\ pThrowing = {} /\ pStage = "off"
  /\ pKnown = <<>> /\ pAi = NoAnalysis /\ pScript = <<>>

SInit ==
  /\ fixes = <<>>
  /\ pc = [r \in Req |-> "idle"]
  /\ diag = [r \in Req |-> MinimalPayload]
  /\ known = [r \in Req |-> <<>>]
  /\ throwing = [r \in Req |-> {}]
  /\ augmentor = "up"
  /\ detectRuns = 0 /\ aiCalls = 0 /\ idsIssued = 0
  /\ issued = <<>> /\ sent = <<>>
  /\ last = Event("start", 0)

Init == SInit /\ PIdle

Release(r) ==
  /\ pc' = [pc EXCEPT ![r] = "idle"]
  /\ diag' = [diag EXCEPT ![r] = MinimalPayload]
  /\ known' = [known EXCEPT ![r] = <<>>]
  /\ throwing' = [throwing EXCEPT ![r] = {}]

\* The slot a new request is kept in while it is suspended.
FreeSlot == CHOOSE r \in Req : pc[r] = "idle" /\ \A q \in Req : q < r => pc[q] # "idle"

\* POST /diagnose up to the await of line 50.
Post(in) ==
  IF Invalid(in.diag) THEN
    /\ last' = [Event("reject", 400) EXCEPT !.diag = in.diag]
    /\ UNCHANGED << fixes, pc, diag, known, throwing, augmentor, detectRuns, aiCalls,
                    idsIssued, issued, sent >>
  ELSE
    /\ \E r \in Req : pc[r] = "idle"
    /\ detectRuns < MaxCalls
    /\ detectRuns' = detectRuns + 1
    /\ LET knownIssues == detectIssues(in.diag, in.throwing)
           r == FreeSlot
       IN IF knownIssues.threw THEN
            /\ last' = [Event("error", 500) EXCEPT !.diag = in.diag]
            /\ UNCHANGED << fixes, pc, diag, known, throwing, augmentor, aiCalls, idsIssued,
                            issued, sent >>
          ELSE
            /\ aiCalls' = aiCalls + 1
            /\ pc' = [pc EXCEPT ![r] = "awaitAI"]
            /\ diag' = [diag EXCEPT ![r] = in.diag]
            /\ known' = [known EXCEPT ![r] = knownIssues.value]
            /\ throwing' = [throwing EXCEPT ![r] = in.throwing]
            /\ last' = [Event("accept", 0) EXCEPT !.diag = in.diag,
                                                  !.throwing = in.throwing]
            /\ UNCHANGED << fixes, augmentor, idsIssued, issued, sent >>

\* The slot of the request that was suspended last.
KnownOf_Shared(r) ==
  known[CHOOSE q \in Req : pc[q] = "awaitAI" /\ \A o \in Req : pc[o] = "awaitAI" => o <= q]

\* const knownIssues (diagnose.js:47), a local of the request's own call.
KnownOf(r) == known[r]

\* POST /diagnose from the moment the augmentor call settles, lines 50-90.
AiSettle(r, outcome) ==
  /\ pc[r] = "awaitAI"
  /\ augmentor = "up"
  /\ Release(r)
  /\ UNCHANGED << augmentor, detectRuns, aiCalls >>
  /\ LET aiAnalysis == analyzeWithAI(KnownOf(r), outcome) IN
       IF aiAnalysis.threw THEN
         /\ last' = [Event("error", 500) EXCEPT !.diag = diag[r], !.ai = outcome.kind]
         /\ UNCHANGED << fixes, idsIssued, issued, sent >>
       ELSE
         LET fixId == Nanoid(idsIssued)
             fixScript == generateFixScript(KnownOf(r), aiAnalysis.value, fixId)
             result == Result(fixId, KnownOf(r), aiAnalysis.value, fixScript)
             after == Evict(MapSet(fixes, fixId, result))
         IN /\ idsIssued' = idsIssued + 1
            /\ fixes' = after
            /\ issued' = Append(issued, fixId)
            /\ sent' = SelectSeq(Append(sent, [key |-> fixId, script |-> fixScript]),
                                 LAMBDA e : e.key \in MapKeys(after))
            /\ last' = [Event("respond", 200) EXCEPT
                          !.diag = diag[r], !.fixId = fixId, !.ai = outcome.kind,
                          !.throwing = throwing[r], !.response = outcome.response,
                          !.result = result]

\* fixes.get(req.params.fixId)
Lookup_First(m, id) == IF m = <<>> THEN 0 ELSE 1
Lookup(m, id) == IF MapHas(m, id) THEN MapIndex(m, id) ELSE 0

\* GET /fix/:fixId, diagnose.js:94-107
GetFix(id, format) ==
  /\ LET at == Lookup(fixes, id) IN
       IF at = 0 THEN
         last' = [Event("get", 404) EXCEPT !.fixId = id, !.format = format]
       ELSE IF format = "script" THEN
         last' = [Event("get", 200) EXCEPT !.fixId = id, !.format = format,
                                           !.text = fixes[at].value.fixScript]
       ELSE
         last' = [Event("get", 200) EXCEPT !.fixId = id, !.format = format,
                                           !.result = fixes[at].value]
  /\ UNCHANGED << fixes, pc, diag, known, throwing, augmentor, detectRuns, aiCalls,
                  idsIssued, issued, sent >>

\* storeDiagnosis(result) for a result of the store.
StoreDiagnosis(i, poolUp, failAt) ==
  /\ i \in 1..Len(fixes)
  /\ last' = [Event("store", 0) EXCEPT
                !.fixId = fixes[i].key, !.poolUp = poolUp, !.failAt = failAt,
                !.store = storeDiagnosis(fixes[i].value, poolUp, failAt)]
  /\ UNCHANGED << fixes, pc, diag, known, throwing, augmentor, detectRuns, aiCalls,
                  idsIssued, issued, sent >>

\* The augmentor stops answering: the calls that are pending, and those made
\* later, never settle.
AugmentorHangs ==
  /\ augmentor = "up"
  /\ augmentor' = "hung"
  /\ last' = Event("hang", 0)
  /\ UNCHANGED << fixes, pc, diag, known, throwing, detectRuns, aiCalls, idsIssued,
                  issued, sent >>

DoPost == \E in \in ServerInputs : Post(in)
DoAiSettle == \E r \in Req, o \in ServerAiOutcomes : AiSettle(r, o)
DoGetFix == \E id \in 1..(MaxCalls + 1), f \in {"json", "script"} : GetFix(id, f)
DoStoreDiagnosis ==
  \E i \in 1..Len(fixes), up \in BOOLEAN :
    \E failAt \in 0..(IF up THEN 1 + Len(fixes[i].value.knownIssues) ELSE 0) :
       StoreDiagnosis(i, up, failAt)

Next ==
  \/ DoPost /\ UNCHANGED pvars
  \/ DoAiSettle /\ UNCHANGED pvars
  \/ DoGetFix /\ UNCHANGED pvars
  \/ DoStoreDiagnosis /\ UNCHANGED pvars
  \/ AugmentorHangs /\ UNCHANGED pvars

Spec == Init /\ [][Next]_vars

\* The event loop runs the continuation of a settled augmentor call; nothing
\* makes a call settle that never does.
FairSpec == Spec /\ \A r \in Req : WF_vars(\E o \in ServerAiOutcomes : AiSettle(r, o) /\ UNCHANGED pvars)

(***************************************************************************)
(* The detector and the composer on their own: detectIssues applied to     *)
(* every payload of DetectPayloads with at most one predicate made to      *)
(* throw, and the pipeline detect, analyze, compose of diagnose.js:47-56   *)
(* on every payload and every augmentor outcome.                           *)
(***************************************************************************)
ThrowChoices == { {} } \cup { {id} : id \in IssueIds }

PInit ==
  /\ pPayload \in DetectPayloads
  /\ pStage = "input"
  /\ pKnown = <<>> /\ pAi = NoAnalysis /\ pScript = <<>>

\* const knownIssues = detectIssues(diagnostic)
PDetect ==
  /\ pStage = "input"
  /\ LET r == detectIssues(pPayload, pThrowing) IN
       /\ pStage' = IF r.threw THEN "threw" ELSE "detected"
       /\ pKnown' = r.value
  /\ UNCHANGED << pPayload, pThrowing, pAi, pScript >>

\* const aiAnalysis = await analyzeWithAI(diagnostic, knownIssues)
PAnalyze(outcome) ==
  /\ pStage = "detected"
  /\ LET r == analyzeWithAI(pKnown, outcome) IN
       /\ pStage' = IF r.threw THEN "threw" ELSE "analyzed"
       /\ pAi' = r.value
  /\ UNCHANGED << pPayload, pThrowing, pKnown, pScript >>

\* const fixScript = generateFixScript(knownIssues, aiAnalysis, fixId)
PCompose(fixId) ==
  /\ pStage = "analyzed"
  /\ pScript' = generateFixScript(pKnown, pAi, fixId)
  /\ pStage' = "composed"
  /\ UNCHANGED << pPayload, pThrowing, pKnown, pAi >>

DoPAnalyze == \E o \in AiOutcomes : PAnalyze(o)
DoPCompose == PCompose(1)

\* The detector under rule faults.
DetectNext == PDetect /\ UNCHANGED svars
InitDetect == SInit /\ PInit /\ pThrowing \in ThrowChoices
SpecDetect == InitDetect /\ [][DetectNext]_vars

\* The pipeline without rule faults.
ComposeNext ==
  \/ PDetect /\ UNCHANGED svars
  \/ DoPAnalyze /\ UNCHANGED svars
  \/ DoPCompose /\ UNCHANGED svars
InitCompose == SInit /\ PInit /\ pThrowing = {}
SpecCompose == InitCompose /\ [][ComposeNext]_vars

(***************************************************************************)
(* Properties.                                                             *)
(***************************************************************************)
\* The events that answer, or suspend, a POST /diagnose.
PostOps == {"reject", "accept", "respond", "error"}

\* The payload is absent or has no truthy top-level system field.
LacksSystem(d) == d.body = "absent" \/ d.system \in {"absent", "falsy"}

CatalogIndex(id) == CHOOSE k \in 1..Len(KNOWN_ISSUES) : KNOWN_ISSUES[k].id = id
Ids(issues) == [i \in 1..Len(issues) |-> issues[i].id]
InCatalogOrder(ids) ==
  \A i \in 1..Len(ids) : \A j \in 1..Len(ids) :
     i < j => CatalogIndex(ids[i]) < CatalogIndex(ids[j])

LinesOf(script, kind) == SelectSeq(script, LAMBDA l : l.kind = kind)

\* C1: a POST /diagnose whose payload is absent or lacks a truthy system is
\* answered 400 in the step that receives it, and that step runs no
\* detection, makes no augmentor call and leaves the result store as it was.
C1_RejectsBeforeDetection ==
  [][ (last'.op \in PostOps /\ LacksSystem(last'.diag)) =>
        /\ last'.op = "reject"
        /\ last'.status = 400
        /\ UNCHANGED << fixes, detectRuns, aiCalls >> ]_vars

\* A payload with a falsy system was rejected while the store held results.
C1_Witness ==
  /\ last.op = "reject" /\ last.status = 400
  /\ last.diag.body = "object" /\ last.diag.system = "falsy"
  /\ fixes # <<>>

\* The issues the catalog without rule R matches, with no predicate throwing.
MatchedWithout(R, d) ==
  LET kept == SelectSeq(KNOWN_ISSUES, LAMBDA i : i.id # R /\ Detect(i.id, d))
  IN [i \in 1..Len(kept) |-> Project(kept[i])]

\* C2: when the predicate of rule R throws, detectIssues returns normally
\* and its list is the list the catalog without R gives, in the same order.
C2_FaultIsolation ==
  (pStage # "input" /\ pStage # "off") =>
     /\ pStage = "detected"
     /\ \A R \in pThrowing : pKnown = MatchedWithout(R, pPayload)

\* The predicate of port-conflict threw on a payload it matches, and rules
\* declared before and after it were still detected.
C2_Witness ==
  /\ pStage = "detected" /\ pThrowing = {"port-conflict"}
  /\ Detect("port-conflict", pPayload)
  /\ \E i \in 1..Len(pKnown) : pKnown[i].id = "mem0-graph-free"
  /\ \E i \in 1..Len(pKnown) : pKnown[i].id = "no-soul"

\* C3: when the augmentor call rejects or resolves with a malformed message,
\* the request is answered 200; the result, which is the one stored, has
\* the pattern-only summary with the number of matched issues, no insights,
\* no AI block in its script, the fix body of every matched issue in the
\* script, and the banner naming the fix identifier as its last line.
C3_AugmentorFaultDegrades ==
  (last.op \in {"respond", "error"} /\ last.ai \in {"reject", "malformed"}) =>
     LET res == last.result
         script == res.fixScript
     IN /\ last.op = "respond" /\ last.status = 200
        /\ res.analysis.patternOnly
        /\ res.analysis.count = Len(res.knownIssues)
        /\ res.aiInsights = <<>>
        /\ LinesOf(script, "aiFixes") = <<>>
        /\ LinesOf(script, "aiHeader") = <<>>
        /\ \A i \in 1..Len(res.knownIssues) :
             \E n \in 1..Len(script) :
                /\ script[n].kind = "issueFix"
                /\ script[n].text = KNOWN_ISSUES[CatalogIndex(res.knownIssues[i].id)].fix
        /\ script # <<>>
        /\ script[Len(script)].kind = "bannerFixId"
        /\ script[Len(script)].id = res.fixId
        /\ MapHas(fixes, res.fixId)
        /\ fixes[MapIndex(fixes, res.fixId)].value = res

\* The augmentor call was rejected for a request with matched issues.
C3_Witness ==
  /\ last.op = "respond" /\ last.ai = "reject"
  /\ Len(last.result.knownIssues) >= 2

\* The last n elements of a sequence.
LastN(seq, n) == IF Len(seq) <= n THEN seq ELSE SubSeq(seq, Len(seq) - n + 1, Len(seq))

\* C4: the store holds exactly the last Capacity keys inserted, in insertion
\* order, whatever retrievals happened; a retrieval finds a key exactly when
\* it is one of those.
C4_InsertionOrderEviction ==
  /\ Len(fixes) <= Capacity
  /\ [i \in 1..Len(fixes) |-> fixes[i].key] = LastN(issued, Capacity)
  /\ last.op = "get" =>
       /\ last.status \in {200, 404}
       /\ last.status = 404 <=>
            ~(\E i \in 1..Len(LastN(issued, Capacity)) :
                 LastN(issued, Capacity)[i] = last.fixId)

\* The oldest key was evicted and its retrieval answered not-found.
C4_Witness ==
  /\ last.op = "get" /\ last.status = 404
  /\ Len(issued) > Capacity
  /\ last.fixId = issued[1]

\* C5: a request suspended at the augmentor call is eventually answered.
C5_EventuallyResponds ==
  \A r \in Req : (pc[r] = "awaitAI") ~> (pc[r] = "idle")

\* A valid payload: system present (truthy).
HasSystem(d) == d.body = "object" /\ d.system = "truthy"

\* C6: a POST /diagnose with system present is never answered with an error,
\* whatever rule and augmentor faults occur, and its answer is a result with
\* status 200; storeDiagnosis never throws, and logs when a query failed.
C6_OnlyInvalidInputFails ==
  /\ (last.op \in PostOps /\ HasSystem(last.diag)) =>
        /\ last.op \in {"accept", "respond"}
        /\ last.op = "respond" =>
             (last.status = 200 /\ last.result.fixId = last.fixId /\ last.fixId > 0)
  /\ last.op = "store" =>
        /\ ~last.store.threw
        /\ (last.poolUp /\ last.failAt >= 1) => last.store.logged

\* A request whose payload has no pruning configured was answered 200 though
\* the predicate of no-context-pruning threw and the augmentor call failed.
C6_Witness ==
  /\ last.op = "respond" /\ last.status = 200 /\ last.ai = "reject"
  /\ ~last.diag.config.contextPruning
  /\ \A i \in 1..Len(last.result.knownIssues) :
        last.result.knownIssues[i].id # "no-context-pruning"

\* C7: the ids detectIssues returns are in strictly increasing catalog
\* position: catalog order, no id twice.
C7_CatalogOrder ==
  pStage = "detected" =>
     /\ \A i \in 1..Len(pKnown) : pKnown[i].id \in IssueIds
     /\ InCatalogOrder(Ids(pKnown))

\* A medium issue was returned before a high one.
C7_Witness ==
  /\ pStage = "detected"
  /\ \E i \in 1..Len(pKnown) : \E j \in (i + 1)..Len(pKnown) :
        pKnown[i].severity = "medium" /\ pKnown[j].severity = "high"

\* The catalog entry an issue header line was rendered from (0 for none).
HeaderIssue(line) ==
  IF \E k \in 1..Len(KNOWN_ISSUES) :
        line.text = <<"# Fix:">> \o KNOWN_ISSUES[k].title \o <<KNOWN_ISSUES[k].severity>>
  THEN CHOOSE k \in 1..Len(KNOWN_ISSUES) :
        line.text = <<"# Fix:">> \o KNOWN_ISSUES[k].title \o <<KNOWN_ISSUES[k].severity>>
  ELSE 0

\* C8: the script has one issue block per matched issue, in catalog order.
C8_BlocksInCatalogOrder ==
  pStage = "composed" =>
     LET headers == LinesOf(pScript, "issueHeader")
         bodies == LinesOf(pScript, "issueFix")
     IN /\ Len(headers) = Len(pKnown)
        /\ Len(bodies) = Len(pKnown)
        /\ \A i \in 1..Len(headers) :
             /\ HeaderIssue(headers[i]) = CatalogIndex(pKnown[i].id)
             /\ bodies[i].text = pKnown[i].fix
        /\ \A i \in 1..Len(headers) : \A j \in 1..Len(headers) :
             i < j => HeaderIssue(headers[i]) < HeaderIssue(headers[j])

\* The block of a medium issue was emitted before the block of a high one.
C8_Witness ==
  /\ pStage = "composed"
  /\ \E i \in 1..Len(pScript) : \E j \in (i + 1)..Len(pScript) :
        /\ pScript[i].kind = "issueHeader" /\ pScript[j].kind = "issueHeader"
        /\ KNOWN_ISSUES[HeaderIssue(pScript[i])].severity = "medium"
        /\ KNOWN_ISSUES[HeaderIssue(pScript[j])].severity = "high"

\* C9: a retrieval that finds a key answers, in both representations, the
\* script that the diagnose response for that key carried.
C9_RoundTrip ==
  /\ \A i \in 1..Len(fixes) : \E n \in 1..Len(sent) : sent[n].key = fixes[i].key
  /\ (last.op = "get" /\ last.status = 200) =>
        \E n \in 1..Len(sent) :
           /\ sent[n].key = last.fixId
           /\ last.format = "script" => last.text = sent[n].script
           /\ last.format = "json" => last.result.fixScript = sent[n].script

\* An older key was retrieved as raw script after later diagnose calls.
C9_Witness ==
  /\ last.op = "get" /\ last.status = 200 /\ last.format = "script"
  /\ Len(issued) > Capacity
  /\ last.fixId # issued[Len(issued)]
  /\ last.text # <<>>

HasRestartBlock(script) == LinesOf(script, "restartHeader") # <<>>

\* C10: the script has the restart block exactly when a fix body emitted
\* into it, of a matched issue or of the AI block, contains openclaw.json.
C10_RestartIffMarkerEmitted ==
  pStage = "composed" =>
     (HasRestartBlock(pScript) <=>
        \E n \in 1..Len(pScript) :
           /\ pScript[n].kind \in {"issueFix", "aiFixes"}
           /\ Includes(pScript[n].text, CONFIG_MARKER))

\* A payload in which enableGraph is true under the plugin entry key, and
\* no other field a catalog predicate reads has a triggering value.
OnlyGraphUnder(key, d) ==
  /\ d.config.graphKey = key
  /\ d.config.hybridEnabled /\ d.config.contextPruning
  /\ d.config.memoryFlushEnabled
  /\ d.workspace.hasSoul /\ d.workspace.memoryFiles > 0
  /\ d.openclaw.gatewayStatus \in {"", "running"}
  /\ d.logs = NoLogs

\* The detection list is the single mem0-graph-free result, and the composed
\* script has one issue block, which is its block, and the backup step.
OneGraphResult ==
  /\ pStage \in {"detected", "analyzed", "composed"}
  /\ Len(pKnown) = 1
  /\ pKnown[1].id = "mem0-graph-free"
  /\ pKnown[1].severity = "critical"
  /\ pStage = "composed" =>
       /\ Len(LinesOf(pScript, "issueHeader")) = 1
       /\ Len(LinesOf(pScript, "issueFix")) = 1
       /\ LinesOf(pScript, "issueFix")[1].text = KNOWN_ISSUES[1].fix
       /\ Len(LinesOf(pScript, "backupCp")) = 1

\* C11, as the claim states it: a payload whose only triggering field is
\* enableGraph === true under the plugin entry "mem0" gives exactly the
\* mem0-graph-free result and a script with one issue block and the backup.
C11_GraphUnderMem0 ==
  (pStage # "input" /\ pStage # "off" /\ OnlyGraphUnder("mem0", pPayload)) =>
     OneGraphResult

\* C11, amended: a payload whose only triggering field is enableGraph ===
\* true under the plugin entry "openclaw-mem0" gives exactly one detection
\* result, mem0-graph-free with severity critical, and its composed script
\* has exactly one issue block and the backup step.
C11_GraphUnderOpenclawMem0 ==
  (pStage # "input" /\ pStage # "off"
     /\ OnlyGraphUnder("openclaw-mem0", pPayload)) => OneGraphResult

\* A script was composed for a payload with only the graph flag set.
C11_Witness ==
  /\ pStage = "composed"
  /\ OnlyGraphUnder("openclaw-mem0", pPayload)
  /\ Len(LinesOf(pScript, "issueHeader")) = 1

\* The ids of the rules that read log text or the gateway process status.
LogOrStatusRules ==
  { "gateway-not-running", "port-conflict", "browser-port-binding",
    "ggml-metal-crash", "orphan-tool-calls" }

\* C12: on the minimal valid payload (system present, every other field
\* absent) with no predicate throwing, detectIssues returns normally, and
\* its list is not empty, holds no-hybrid-search, no-context-pruning,
\* no-memory-flush and no-soul, and holds no rule that reads log text or
\* the process status.
C12_MinimalPayload ==
  (pStage # "input" /\ pStage # "off" /\ pThrowing = {}
     /\ pPayload.system = "truthy" /\ pPayload.config = MinimalConfig
     /\ pPayload.openclaw = NoOpenclaw /\ pPayload.workspace = NoWorkspace
     /\ pPayload.logs = NoLogs) =>
     /\ pStage = "detected"
     /\ pKnown # <<>>
     /\ { "no-hybrid-search", "no-context-pruning", "no-memory-flush",
          "no-soul" } \subseteq { pKnown[i].id : i \in 1..Len(pKnown) }
     /\ \A i \in 1..Len(pKnown) : pKnown[i].id \notin LogOrStatusRules

\* Detection ran on the minimal payload and found the four rules.
C12_Witness ==
  /\ pStage = "detected" /\ pThrowing = {}
  /\ pPayload = MinimalPayload
  /\ Len(pKnown) = 4

\* C13: for every payload whose logs.errors holds EADDRINUSE, the detection
\* list holds port-conflict, and the composed script holds that issue's
\* block: its header followed by its description and its fix body verbatim.
C13_PortConflict ==
  (pStage \in {"detected", "analyzed", "composed"}
     /\ Includes(pPayload.logs.errors, "EADDRINUSE")) =>
     /\ \E i \in 1..Len(pKnown) :
           pKnown[i].id = "port-conflict" /\ pKnown[i].severity = "critical"
     /\ pStage = "composed" =>
          \E n \in 1..(Len(pScript) - 2) :
             /\ pScript[n].kind = "issueHeader"
             /\ HeaderIssue(pScript[n]) = 3
             /\ pScript[n + 2].kind = "issueFix"
             /\ pScript[n + 2].text = KNOWN_ISSUES[3].fix

\* A script was composed for a payload whose error log holds EADDRINUSE
\* after other text.
C13_Witness ==
  /\ pStage = "composed"
  /\ pPayload.logs.errors = <<"gateway", "EADDRINUSE">>
  /\ \E n \in 1..Len(pScript) :
        pScript[n].kind = "issueFix" /\ pScript[n].text = KNOWN_ISSUES[3].fix

\* The block a script line belongs to: 1 header, 2 backup step, 3 issue
\* blocks, 4 AI block, 5 restart block, 6 completion banner; 0 for the
\* empty separator lines, 7 for a line of no block.
BlockOf(kind) ==
  CASE kind = "" -> 0
    [] kind \in {"shebang", "scriptId", "generated", "review", "comment",
                 "usage", "set"} -> 1
    [] kind \in {"backup", "backupIf", "backupCp", "backupEcho", "backupFi"} -> 2
    [] kind \in {"issueHeader", "issueDescription", "issueFix"} -> 3
    [] kind \in {"aiHeader", "aiFixes"} -> 4
    [] kind \in {"restartHeader", "restartEcho", "restartCommand"} -> 5
    [] kind \in {"bannerBlank", "bannerDone", "bannerFixId"} -> 6
    [] OTHER -> 7

\* The kinds of the lines of a script, without the separator lines.
KindsOf(script) ==
  LET kept == SelectSeq(script, LAMBDA l : l.kind # "")
  IN [n \in 1..Len(kept) |-> kept[n].kind]

\* C15: a composed script has its blocks in the order header, backup step,
\* issue blocks, AI block, restart block, completion banner; the header,
\* the backup step and the banner are always there, the banner last; the
\* AI block is there, once and with the augmentor's additionalFixes text,
\* exactly when that text is not empty; with no matched issue and no AI
\* fixes the script is the header, the backup step and the banner only.
C15_BlockOrder ==
  pStage = "composed" =>
     LET kinds == KindsOf(pScript) IN
       /\ \A n \in 1..Len(kinds) : BlockOf(kinds[n]) \in 1..6
       /\ \A m, n \in 1..Len(kinds) : m < n => BlockOf(kinds[m]) <= BlockOf(kinds[n])
       /\ SubSeq(kinds, 1, 12) =
            << "shebang", "scriptId", "generated", "review", "comment", "usage",
               "set", "backup", "backupIf", "backupCp", "backupEcho", "backupFi" >>
       /\ SubSeq(kinds, Len(kinds) - 2, Len(kinds)) =
            << "bannerBlank", "bannerDone", "bannerFixId" >>
       /\ pScript[Len(pScript)].kind = "bannerFixId"
       /\ Len(LinesOf(pScript, "bannerFixId")) = 1
       /\ Len(LinesOf(pScript, "issueHeader")) = Len(pKnown)
       /\ Len(LinesOf(pScript, "restartHeader")) <= 1
       /\ IF pAi.additionalFixes # <<>>
          THEN /\ Len(LinesOf(pScript, "aiHeader")) = 1
               /\ LinesOf(pScript, "aiFixes") =
                    << [kind |-> "aiFixes", id |-> 0, text |-> pAi.additionalFixes] >>
          ELSE /\ LinesOf(pScript, "aiHeader") = <<>>
               /\ LinesOf(pScript, "aiFixes") = <<>>
       /\ (pKnown = <<>> /\ pAi.additionalFixes = <<>>) =>
            /\ Len(kinds) = 15
            /\ Len(pScript) = 18

\* A script was composed with issue blocks, the AI block and the restart
\* block.
C15_Witness ==
  /\ pStage = "composed"
  /\ Len(LinesOf(pScript, "issueHeader")) >= 2
  /\ LinesOf(pScript, "aiHeader") # <<>>
  /\ LinesOf(pScript, "restartHeader") # <<>>

\* The ids of the rules that match payload d, in catalog order, when the
\* predicates of the rules in T throw.
OwnIds(d, T) ==
  Ids(SelectSeq(KNOWN_ISSUES, LAMBDA i : i.id \notin T /\ Detect(i.id, d)))

\* The result answered by the last step comes from the payload of its own
\* request and from the outcome of its own augmentor call.
OwnResult ==
  LET res == last.result
      headers == LinesOf(res.fixScript, "issueHeader")
  IN /\ Ids(res.knownIssues) = OwnIds(last.diag, last.throwing)
     /\ res.issuesFound = Len(OwnIds(last.diag, last.throwing))
     /\ [n \in 1..Len(headers) |-> KNOWN_ISSUES[HeaderIssue(headers[n])].id]
          = OwnIds(last.diag, last.throwing)
     /\ res.analysis.patternOnly <=> last.ai # "ok"
     /\ res.analysis.patternOnly =>
          res.analysis.count = Len(OwnIds(last.diag, last.throwing))
     /\ ~res.analysis.patternOnly =>
          /\ res.analysis.text = extractSection(last.response, "summary")
          /\ LinesOf(res.fixScript, "aiFixes") =
               << [ kind |-> "aiFixes", id |-> 0,
                    text |-> extractSection(last.response, "fix") ] >>

BlockIds(script) ==
  LET headers == LinesOf(script, "issueHeader")
  IN [n \in 1..Len(headers) |-> KNOWN_ISSUES[HeaderIssue(headers[n])].id]

\* C16: every entry of the result store agrees with its key K: its fixId is
\* K, the header line and the banner line of its fixScript that carry a
\* fix identifier name K, its knownIssues list has the ids of the issue
\* blocks of its fixScript in the same order, and its issuesFound is the
\* length of that list.
C16_EntryConsistentWithKey ==
  \A e \in 1..Len(fixes) :
     LET K == fixes[e].key
         res == fixes[e].value
         script == res.fixScript
     IN /\ res.fixId = K
        /\ LinesOf(script, "scriptId") # <<>>
        /\ \A n \in 1..Len(script) :
             script[n].kind \in {"scriptId", "bannerFixId"} => script[n].id = K
        /\ script[Len(script)].kind = "bannerFixId"
        /\ Ids(res.knownIssues) = BlockIds(script)
        /\ res.issuesFound = Len(res.knownIssues)

\* The store holds two entries, one of them with several issue blocks and
\* the AI block.
C16_Witness ==
  /\ Len(fixes) = Capacity
  /\ fixes[1].key # fixes[2].key
  /\ \E e \in 1..Len(fixes) :
        /\ Len(fixes[e].value.knownIssues) >= 2
        /\ LinesOf(fixes[e].value.fixScript, "aiFixes") # <<>>

====
